---- MODULE Spec2Model ----
(***************************************************************************)
(* Model of csim.c, a trace-driven simulator of a set-associative cache    *)
(* with LRU replacement and dirty-byte accounting.                         *)
(*                                                                         *)
(* The cache is the flat, set-major array of main(); simulate() is the     *)
(* operator Simulate, built from its scan, its hit path, its cold-miss     *)
(* path and its eviction path; process_trace_file() is the action Access   *)
(* (one trace record per step) and the end-of-trace sweep of main() is the *)
(* action Finish.                                                          *)
(***************************************************************************)
EXTENDS Integers, Sequences, FiniteSets, TLC

\* ------------------------------------------------------------------ bounds
\* Width of an address in bits. The program uses 64 (MAXBITS); the model
\* narrows it so that the shifts stay inside TLC's integers.
MAXBITS == 6
\* Largest number of set-index bits (-s) explored.
MaxSBits == 1
\* Largest number of block-offset bits (-b) explored.
MaxBBits == 1
\* Largest associativity (-E) explored.
MaxE == 3
\* Largest address that appears in a trace record.
MaxAddr == 2
\* Largest number of trace records applied in one run.
MaxAccesses == 4
\* Largest number of trace lines read when the lines may be malformed.
MaxLines == 2

VARIABLES
    s,      \* number of set-index bits        (main: int s)
    E,      \* lines per set                   (main: int E)
    b,      \* number of block-offset bits     (main: int b)
    cache,  \* flat array 0 .. S*E-1 of lines  (main: line *cache)
    stats,  \* the five counters               (main: csim_stats_t *stats)
    pc,     \* "run" while the trace is read, "done" after the summary
    hist,   \* the trace records applied so far, each with its outcome
    S,      \* number of sets                  (main: int S)
    B,      \* bytes per block                 (main: int B)
    argv,   \* the options of the invocation   (main: argc, argv)
    fh,     \* the trace file handle           (process_trace_file: tfp)
    line,   \* the latest trace line read      (process_trace_file: linebuf)
    dec     \* an address and its tag and set  (process_trace_file: addr,
            \* tag, set)

vars == <<s, E, b, cache, stats, pc, hist, S, B, argv, fh, line, dec>>

\* ---------------------------------------------------------------- helpers
RECURSIVE Pow2(_)
Pow2(n) == IF n = 0 THEN 1 ELSE 2 * Pow2(n - 1)

Min(I) == CHOOSE m \in I : \A n \in I : m <= n
Max(I) == CHOOSE m \in I : \A n \in I : m >= n

\* #define MAXADDR: the all-ones address, the tag of a line never filled
MAXADDR == Pow2(MAXBITS) - 1

\* #define MAXSIZE: the largest size field the parser accepts
MAXSIZE == 1024

Ops == {"L", "S"}

\* ----------------------------------------------- address decomposition
\* tag = addr >> (s + b)
TagOf(addr) == addr \div Pow2(s + b)

\* set = (addr << (MAXBITS - s - b)) >> (MAXBITS - s), 0 when s = 0;
\* the left shift drops the bits that leave the MAXBITS-wide word
SetOf(addr) ==
    IF s = 0 THEN 0
    ELSE ((addr * Pow2(MAXBITS - s - b)) % Pow2(MAXBITS)) \div Pow2(MAXBITS - s)

\* The values tag can take. A shift of a MAXBITS-wide word by MAXBITS or
\* more (s + b = MAXBITS) is undefined: a shifter that masks the count leaves
\* the address as it is, one that does not gives 0.
TagOutcomes(addr) ==
    IF s + b < MAXBITS THEN {TagOf(addr)} ELSE {0, addr}

\* ---------------------------------------------------------- trace lines
\* A line of the trace as the parser sees it: nl, a newline was found in
\* the buffer; op, the first token; hasAddr and hasSize, strtok returned
\* the field; addrTrail and sizeTrail, the conversion stopped before the
\* end of the field; size, the value strtoul returned (a negative numeral
\* wraps to a value above MAXSIZE).
\* "op addr,1" followed by a newline.
GoodLine(op) ==
    [nl |-> TRUE, op |-> op, hasAddr |-> TRUE, addrTrail |-> FALSE,
     hasSize |-> TRUE, sizeTrail |-> FALSE, size |-> 1]

\* The lines of the traces explored: "L" and "S" lines with a size of 0, 1,
\* MAXSIZE or MAXSIZE + 1, and an "L" line with one defect: no newline in
\* the buffer, operation "M", no address field, no size field, characters
\* after the address numeral, characters after the size numeral.
Lines ==
    {[GoodLine(op) EXCEPT !.size = sz] :
        op \in {"L", "S"}, sz \in {0, 1, MAXSIZE, MAXSIZE + 1}}
    \cup {[GoodLine("L") EXCEPT !.nl = FALSE],
          GoodLine("M"),
          [GoodLine("L") EXCEPT !.hasAddr = FALSE, !.hasSize = FALSE],
          [GoodLine("L") EXCEPT !.hasSize = FALSE],
          [GoodLine("L") EXCEPT !.addrTrail = TRUE],
          [GoodLine("L") EXCEPT !.sizeTrail = TRUE]}

\* No line read yet.
NoLine == GoodLine("none")

\* The checks of process_trace_file that return 1, in the order of the code.
\* addr > MAXADDR cannot hold for a value of the address type.
Rejects(ln, addr) ==
    \/ ~ln.nl
    \/ (ln.op # "L" /\ ln.op # "S")
    \/ ~ln.hasAddr \/ ~ln.hasSize
    \/ ln.addrTrail \/ addr > MAXADDR
    \/ ln.sizeTrail \/ ln.size > MAXSIZE

\* ------------------------------------------------------------- simulate
\* A scan that stops one line short of the end of the set.
FirstStop_OffByOne(c, base, tag) ==
    LET I == {i \in 0 .. E - 2 :
                 c[base + i].valid = 0 \/ c[base + i].tag = tag}
    IN  IF I = {} THEN -1 ELSE Min(I)

\* The scan of simulate(): the first position of the set that is invalid
\* or holds the tag; -1 when the loop runs to the end (res stays -1).
FirstStop(c, base, tag) ==
    LET I == {i \in 0 .. E - 1 :
                 c[base + i].valid = 0 \/ c[base + i].tag = tag}
    IN  IF I = {} THEN -1 ELSE Min(I)

\* An inner loop that forgets to test the valid bit of the right neighbour.
HitEnd_NoValidCheck(c, base, i) == E - 1

\* Where the inner loop of the hit path stops: the first j >= i that is the
\* last position of the set or whose right neighbour is invalid.
HitEnd(c, base, i) ==
    Min({j \in i .. E - 1 : j = E - 1 \/ c[base + j + 1].valid = 0})

\* A hit path that leaves the line where it was found.
HitPath_InPlace(c, base, i, tag, op) ==
    [c EXCEPT ![base + i] = [@ EXCEPT !.tag = tag,
                                      !.dirty = IF op = "S" THEN 1 ELSE @]]

\* A hit path that shifts but forgets to write the tag back at j.
HitPath_NoWriteBack(c, base, i, tag, op) ==
    LET j == HitEnd(c, base, i)
    IN  [p \in DOMAIN c |->
            IF p >= base + i /\ p < base + j
            THEN [c[p] EXCEPT !.tag = c[p + 1].tag, !.dirty = c[p + 1].dirty]
            ELSE IF p = base + j
            THEN [c[p] EXCEPT !.dirty = IF op = "S" THEN 1 ELSE @]
            ELSE c[p]]

\* Hit path: lines i+1 .. j move one place left (tag and dirty), the tag is
\* written at j; dirty at j is set on a store and otherwise left as it is.
HitPath(c, base, i, tag, op) ==
    LET j == HitEnd(c, base, i)
    IN  [p \in DOMAIN c |->
            IF p >= base + i /\ p < base + j
            THEN [c[p] EXCEPT !.tag = c[p + 1].tag, !.dirty = c[p + 1].dirty]
            ELSE IF p = base + j
            THEN [c[p] EXCEPT !.tag = tag,
                              !.dirty = IF op = "S" THEN 1 ELSE @]
            ELSE c[p]]

\* A cold-miss path that fills the last line of the set.
ColdMissPath_AtEnd(c, base, j, tag, op) ==
    [c EXCEPT ![base + E - 1] = [@ EXCEPT !.tag = tag, !.valid = 1,
                                          !.dirty = IF op = "S" THEN 1 ELSE @]]

\* A cold-miss path that forgets to mark the line valid.
ColdMissPath_NoValid(c, base, j, tag, op) ==
    [c EXCEPT ![base + j] = [@ EXCEPT !.tag = tag,
                                      !.dirty = IF op = "S" THEN 1 ELSE @]]

\* Cold-miss path (res == 0): the first invalid line j takes the tag and
\* becomes valid; dirty is set on a store.
ColdMissPath(c, base, j, tag, op) ==
    [c EXCEPT ![base + j] = [@ EXCEPT !.tag = tag, !.valid = 1,
                                      !.dirty = IF op = "S" THEN 1 ELSE @]]

\* An eviction path that never marks the new line dirty.
EvictPath_NoDirty(c, base, tag, op) ==
    [p \in DOMAIN c |->
        IF p >= base /\ p < base + E - 1
        THEN [c[p] EXCEPT !.tag = c[p + 1].tag, !.dirty = c[p + 1].dirty]
        ELSE IF p = base + E - 1
        THEN [c[p] EXCEPT !.tag = tag, !.dirty = 0]
        ELSE c[p]]

\* An eviction path that overwrites the last line without moving the others.
EvictPath_NoShift(c, base, tag, op) ==
    [c EXCEPT ![base + E - 1] = [@ EXCEPT !.tag = tag,
                                          !.dirty = IF op = "S" THEN 1 ELSE 0]]

\* Eviction path (res == -1): every line moves one place left, the last
\* line takes the tag with dirty 0, or 1 on a store.
EvictPath(c, base, tag, op) ==
    [p \in DOMAIN c |->
        IF p >= base /\ p < base + E - 1
        THEN [c[p] EXCEPT !.tag = c[p + 1].tag, !.dirty = c[p + 1].dirty]
        ELSE IF p = base + E - 1
        THEN [c[p] EXCEPT !.tag = tag, !.dirty = IF op = "S" THEN 1 ELSE 0]
        ELSE c[p]]

\* The counters of the three paths.
HitStats(st) == [st EXCEPT !.hits = @ + 1]

ColdStats(st) == [st EXCEPT !.misses = @ + 1]

\* Eviction counters without the miss.
EvictStats_NoMiss(st, c, base) ==
    [st EXCEPT !.evictions = @ + 1,
               !.dirty_evictions = IF c[base].dirty = 1 THEN @ + B ELSE @]

\* Eviction counters without the eviction.
EvictStats_NoEviction(st, c, base) ==
    [st EXCEPT !.misses = @ + 1,
               !.dirty_evictions = IF c[base].dirty = 1 THEN @ + B ELSE @]

EvictStats(st, c, base) ==
    [st EXCEPT !.misses = @ + 1,
               !.evictions = @ + 1,
               !.dirty_evictions = IF c[base].dirty = 1 THEN @ + B ELSE @]

\* A simulate that takes the set index itself as the offset of the set.
Simulate_BaseIsSet(c, st, tag, set, op) ==
    LET base == set
        i    == FirstStop(c, base, tag)
    IN  IF i = -1
        THEN [cache |-> EvictPath(c, base, tag, op),
              stats |-> EvictStats(st, c, base),
              res |-> "evict", victim |-> c[base].tag]
        ELSE IF c[base + i].valid = 0
        THEN [cache |-> ColdMissPath(c, base, i, tag, op),
              stats |-> ColdStats(st),
              res |-> "cold", victim |-> -1]
        ELSE [cache |-> HitPath(c, base, i, tag, op),
              stats |-> HitStats(st),
              res |-> "hit", victim |-> -1]

\* simulate(cache, tag, set, E, B, stats, op): the new cache, the new
\* counters, the path taken and, on an eviction, the tag that left.
Simulate(c, st, tag, set, op) ==
    LET base == set * E
        i    == FirstStop(c, base, tag)
    IN  IF i = -1
        THEN [cache |-> EvictPath(c, base, tag, op),
              stats |-> EvictStats(st, c, base),
              res |-> "evict", victim |-> c[base].tag]
        ELSE IF c[base + i].valid = 0
        THEN [cache |-> ColdMissPath(c, base, i, tag, op),
              stats |-> ColdStats(st),
              res |-> "cold", victim |-> -1]
        ELSE [cache |-> HitPath(c, base, i, tag, op),
              stats |-> HitStats(st),
              res |-> "hit", victim |-> -1]

\* The sweep of main() after a successful parse: B for every line whose
\* dirty field is 1 (valid is not tested).
DirtySweep(c) == B * Cardinality({p \in DOMAIN c : c[p].dirty = 1})

\* --------------------------------------------------------------- actions
\* An option with an integer argument, given or not.
Given(v) == [given |-> TRUE, val |-> v]
Absent == [given |-> FALSE, val |-> 0]

\* No decomposition under observation.
NoDec == [addr |-> -1, tag |-> -1, set |-> -1]

\* main() up to the loop of process_trace_file, run with all four options:
\* a valid geometry, every line invalid and clean with tag MAXADDR, every
\* counter 0, the trace file open.
Init ==
    /\ s \in 0 .. MaxSBits
    /\ b \in 0 .. MaxBBits
    /\ E \in 1 .. MaxE
    /\ S = Pow2(s)
    /\ B = Pow2(b)
    /\ argv = [s |-> Given(s), b |-> Given(b), E |-> Given(E), t |-> TRUE,
               special |-> "none"]
    /\ fh = "open"
    /\ line = NoLine
    /\ dec = NoDec
    /\ cache = [p \in 0 .. S * E - 1 |->
                   [valid |-> 0, tag |-> MAXADDR, dirty |-> 0]]
    /\ stats = [hits |-> 0, misses |-> 0, evictions |-> 0,
                dirty_bytes |-> 0, dirty_evictions |-> 0]
    /\ pc = "run"
    /\ hist = <<>>

\* One iteration of the loop of process_trace_file on the line ln whose
\* address field converts to addr: a line that fails a check makes the
\* function return 1 at once (the handle is not closed on these paths) and
\* main exit with status 1 without a summary; otherwise split the address
\* and call simulate. The block offset is dropped, so the record kept in
\* hist is the operation, the tag, the set, the size and the outcome.
Iterate(ln, addr) ==
    /\ pc = "run"
    /\ line' = ln
    /\ IF Rejects(ln, addr)
       THEN /\ pc' = "error"
            /\ UNCHANGED <<cache, stats, hist>>
       ELSE /\ \E tag \in TagOutcomes(addr) :
                 LET set == SetOf(addr)
                     r   == Simulate(cache, stats, tag, set, ln.op)
                 IN  /\ cache' = r.cache
                     /\ stats' = r.stats
                     /\ hist' = Append(hist,
                                    [op |-> ln.op, tag |-> tag, set |-> set,
                                     size |-> ln.size, res |-> r.res,
                                     victim |-> r.victim])
            /\ pc' = pc
    /\ UNCHANGED <<s, E, b, S, B, argv, fh, dec>>

\* The iteration on a well-formed record "op addr,1".
Step(op, addr) == Iterate(GoodLine(op), addr)

\* The loop reads one more record of a trace of at most MaxAccesses records.
Access(op, addr) ==
    /\ Len(hist) < MaxAccesses
    /\ Step(op, addr)

\* End of file: process_trace_file closes the file and returns 0, main
\* sweeps the dirty lines into dirty_bytes and prints the summary.
Finish ==
    /\ pc = "run"
    /\ fh' = "closed"
    /\ stats' = [stats EXCEPT !.dirty_bytes = @ + DirtySweep(cache)]
    /\ pc' = "done"
    /\ UNCHANGED <<s, E, b, cache, hist, S, B, argv, line, dec>>

Next ==
    \/ \E op \in Ops, addr \in 0 .. MaxAddr : Access(op, addr)
    \/ Finish

Spec == Init /\ [][Next]_vars

\* The same program on one two-way set (-s 0 -E 2), followed for one more
\* record: the smallest cache in which a hit can reorder lines, long enough
\* for a reordered line to be evicted.
InitTwoWay == Init /\ s = 0 /\ E = 2

AccessTwoWay(op, addr) ==
    /\ Len(hist) < MaxAccesses + 1
    /\ Step(op, addr)

NextTwoWay ==
    \/ \E op \in Ops, addr \in 0 .. MaxAddr : AccessTwoWay(op, addr)
    \/ Finish

SpecTwoWay == InitTwoWay /\ [][NextTwoWay]_vars

\* ------------------------------------------------------ the whole program
\* Values an int that was never assigned may hold.
Garbage == {-1, 1, 2}

\* The invocations explored: -s and -b with an argument of -1 .. MaxSBits
\* (MaxBBits) or absent, -E with an argument of 0 .. MaxE or absent, -t given
\* or not, and possibly -h or an unknown option ahead of them.
Invocations ==
    [s : {Absent} \cup {Given(v) : v \in -1 .. MaxSBits},
     b : {Absent} \cup {Given(v) : v \in -1 .. MaxBBits},
     E : {Absent} \cup {Given(v) : v \in 0 .. MaxE},
     t : BOOLEAN,
     special : {"none", "h", "bad"}]

\* (int)pow(2, n)
IntPow2(n) == IF n < 0 THEN 0 ELSE Pow2(n)

\* Entry of main(): s, E and b are 0, S and B are not initialised, nothing
\* is allocated or open.
InitMain ==
    /\ argv \in Invocations
    /\ s = 0 /\ E = 0 /\ b = 0
    /\ S \in Garbage
    /\ B \in Garbage
    /\ cache = <<>>
    /\ stats = [hits |-> 0, misses |-> 0, evictions |-> 0,
                dirty_bytes |-> 0, dirty_evictions |-> 0]
    /\ pc = "start"
    /\ hist = <<>>
    /\ fh = "none"
    /\ line = NoLine
    /\ dec = NoDec

\* main() from the option loop to the allocation: -h prints the usage and
\* exits 0, an unknown option exits 1; an option that is given assigns its
\* variable (and S or B), one that is absent leaves it; then the two checks
\* of the geometry, then the allocation of the cache and of the counters
\* (mem: malloc succeeds), which also fails when S * E is not positive.
ParseArgs(mem) ==
    /\ pc = "start"
    /\ IF argv.special = "h"
       THEN pc' = "help" /\ UNCHANGED <<s, E, b, S, B, cache, stats>>
       ELSE IF argv.special = "bad"
       THEN pc' = "usage" /\ UNCHANGED <<s, E, b, S, B, cache, stats>>
       ELSE LET ns == IF argv.s.given THEN argv.s.val ELSE s
                nS == IF argv.s.given THEN IntPow2(argv.s.val) ELSE S
                nb == IF argv.b.given THEN argv.b.val ELSE b
                nB == IF argv.b.given THEN IntPow2(argv.b.val) ELSE B
                nE == IF argv.E.given THEN argv.E.val ELSE E
            IN  /\ s' = ns /\ S' = nS /\ b' = nb /\ B' = nB /\ E' = nE
                /\ IF ns + nb > MAXBITS
                   THEN pc' = "usage" /\ UNCHANGED <<cache, stats>>
                   ELSE IF ns < 0 \/ nE <= 0 \/ nb < 0 \/ ~argv.t
                   THEN pc' = "usage" /\ UNCHANGED <<cache, stats>>
                   ELSE IF ~mem \/ nS * nE <= 0
                   THEN pc' = "error" /\ UNCHANGED <<cache, stats>>
                   ELSE /\ cache' = [p \in 0 .. nS * nE - 1 |->
                                        [valid |-> 0, tag |-> MAXADDR,
                                         dirty |-> 0]]
                        /\ stats' = [hits |-> 0, misses |-> 0,
                                     evictions |-> 0, dirty_bytes |-> 0,
                                     dirty_evictions |-> 0]
                        /\ pc' = "open"
    /\ UNCHANGED <<hist, argv, fh, line, dec>>

\* fopen in process_trace_file: on failure the function returns 1 and main
\* exits with status 1.
OpenTrace(ok) ==
    /\ pc = "open"
    /\ IF ok THEN fh' = "open" /\ pc' = "run"
             ELSE fh' = fh /\ pc' = "error"
    /\ UNCHANGED <<s, E, b, S, B, cache, stats, hist, argv, line, dec>>

\* fgets returns one more line of a trace of at most MaxLines lines.
ReadLine(ln, addr) ==
    /\ Len(hist) < MaxLines
    /\ Iterate(ln, addr)

NextMain ==
    \/ \E mem \in BOOLEAN : ParseArgs(mem)
    \/ \E ok \in BOOLEAN : OpenTrace(ok)
    \/ \E ln \in Lines, addr \in 0 .. MaxAddr : ReadLine(ln, addr)
    \/ Finish

SpecMain == InitMain /\ [][NextMain]_vars

\* The parser on its own: a valid geometry, the file open, and a trace whose
\* lines may be malformed.
NextParse ==
    \/ \E ln \in Lines, addr \in 0 .. MaxAddr : ReadLine(ln, addr)
    \/ Finish

SpecParse == Init /\ [][NextParse]_vars

\* ------------------------------------------- the decomposition on its own
\* Every geometry the front end lets through (s + b <= MAXBITS) and every
\* address of the word.
InitDecomp ==
    /\ s \in 0 .. MAXBITS
    /\ b \in 0 .. MAXBITS
    /\ s + b <= MAXBITS
    /\ S = Pow2(s)
    /\ B = Pow2(b)
    /\ E = 1
    /\ argv = [s |-> Given(s), b |-> Given(b), E |-> Given(E), t |-> TRUE,
               special |-> "none"]
    /\ dec \in [addr : 0 .. MAXADDR, tag : {-1}, set : {-1}]
    /\ cache = <<>>
    /\ stats = [hits |-> 0, misses |-> 0, evictions |-> 0,
                dirty_bytes |-> 0, dirty_evictions |-> 0]
    /\ pc = "run"
    /\ hist = <<>>
    /\ fh = "open"
    /\ line = NoLine

\* The two shift expressions of process_trace_file applied to dec.addr.
Decompose ==
    /\ dec.tag = -1
    /\ \E tag \in TagOutcomes(dec.addr) :
          dec' = [dec EXCEPT !.tag = tag, !.set = SetOf(dec.addr)]
    /\ UNCHANGED <<s, E, b, S, B, cache, stats, pc, hist, argv, fh, line>>

NextDecomp == Decompose

SpecDecomp == InitDecomp /\ [][NextDecomp]_vars

TypeOK ==
    /\ s \in 0 .. MaxSBits /\ b \in 0 .. MaxBBits /\ E \in 1 .. MaxE
    /\ DOMAIN cache = 0 .. S * E - 1
    /\ \A p \in DOMAIN cache :
          /\ cache[p].valid \in {0, 1}
          /\ cache[p].dirty \in {0, 1}
          /\ cache[p].tag \in 0 .. MAXADDR
    /\ pc \in {"run", "done"}

\* ------------------------------------------------- vocabulary of the claims
\* The latest record applied, and the one a step appends.
cur == hist[Len(hist)]
new == hist'[Len(hist')]

\* The step applies one trace record.
IsAccess == Len(hist') = Len(hist) + 1

Sets == 0 .. S - 1
Pos == 0 .. E - 1

\* The line at position i of a set.
LineAt(c, set, i) == c[set * E + i]

\* Number of valid lines of a set.
NumValid(c, set) == Cardinality({i \in Pos : LineAt(c, set, i).valid = 1})

\* The tag is held by a valid line of the set.
Resident(c, set, tag) ==
    \E i \in Pos : LineAt(c, set, i).valid = 1 /\ LineAt(c, set, i).tag = tag

\* Index in the trace of the latest access to a block, 0 if there is none.
LastUse(set, tag) ==
    Max({0} \cup {n \in 1 .. Len(hist) :
                     hist[n].set = set /\ hist[n].tag = tag})

\* Among the valid lines of a set, a lower position was accessed earlier.
RecencyOrdered(set) ==
    \A i, j \in Pos :
        (i < j /\ LineAt(cache, set, i).valid = 1
               /\ LineAt(cache, set, j).valid = 1)
        => LastUse(set, LineAt(cache, set, i).tag)
             < LastUse(set, LineAt(cache, set, j).tag)

\* ----------------------------------------------------------------- C1
\* C1 (as stated): in every reachable state and every set, the invalid lines
\* occupy positions [0, k) and the valid lines the suffix [k, E), the valid
\* lines ordered from least to most recently used.
C1_ValidSuffixLRU ==
    \A set \in Sets :
        /\ \E k \in 0 .. E :
              \A i \in Pos : (LineAt(cache, set, i).valid = 0) <=> (i < k)
        /\ RecencyOrdered(set)

\* C1 (amended): in every reachable state and every set, the valid lines
\* occupy the prefix [0, k) and the invalid lines positions [k, E), the valid
\* lines ordered from least to most recently used.
C1_ValidPrefixLRU ==
    \A set \in Sets :
        /\ \E k \in 0 .. E :
              \A i \in Pos : (LineAt(cache, set, i).valid = 1) <=> (i < k)
        /\ RecencyOrdered(set)

\* A partly filled set with two valid lines, just reordered by a hit on the
\* older of them.
C1_Witness ==
    /\ Len(hist) >= 3
    /\ cur.res = "hit"
    /\ NumValid(cache, cur.set) = 2
    /\ E > 2
    /\ hist[Len(hist) - 1].set = cur.set
    /\ hist[Len(hist) - 1].tag # cur.tag

\* ----------------------------------------------------------------- C2
\* C2: a Load that hits a line with tag T leaves the dirty bit of the line
\* holding T as it was before the access, wherever the line was in its set.
C2_LoadHitKeepsDirty ==
    [][(IsAccess /\ new.op = "L" /\ new.res = "hit")
       => \A i, j \in Pos :
             ( /\ LineAt(cache, new.set, i).valid = 1
               /\ LineAt(cache, new.set, i).tag = new.tag
               /\ LineAt(cache', new.set, j).valid = 1
               /\ LineAt(cache', new.set, j).tag = new.tag )
             => LineAt(cache', new.set, j).dirty
                  = LineAt(cache, new.set, i).dirty]_vars

\* ----------------------------------------------------------------- C3
\* C3: reads never set dirty: after a Load, every valid dirty line holds a
\* tag that was resident and dirty in the same set before the Load.
C3_LoadNeverDirties ==
    [][(IsAccess /\ new.op = "L")
       => \A j \in Pos :
             ( /\ LineAt(cache', new.set, j).valid = 1
               /\ LineAt(cache', new.set, j).dirty = 1 )
             => \E i \in Pos :
                   /\ LineAt(cache, new.set, i).valid = 1
                   /\ LineAt(cache, new.set, i).dirty = 1
                   /\ LineAt(cache, new.set, i).tag
                        = LineAt(cache', new.set, j).tag]_vars

\* ----------------------------------------------------------------- C4
\* C4 (as stated): right after a hit on tag T, position E-1 of the addressed
\* set holds a valid line with tag T, in a full or a partly filled set.
C4_HitAtLastPosition ==
    (Len(hist) > 0 /\ cur.res = "hit")
    => /\ LineAt(cache, cur.set, E - 1).valid = 1
       /\ LineAt(cache, cur.set, E - 1).tag = cur.tag

\* C4 (amended): right after a hit on tag T, the highest valid position of
\* the addressed set holds tag T; that position is E-1 when the set is full.
C4_HitAtLastValid ==
    (Len(hist) > 0 /\ cur.res = "hit")
    => LET k == NumValid(cache, cur.set)
       IN  /\ k >= 1
           /\ LineAt(cache, cur.set, k - 1).valid = 1
           /\ LineAt(cache, cur.set, k - 1).tag = cur.tag
           /\ \A i \in Pos : i >= k => LineAt(cache, cur.set, i).valid = 0

\* A hit in a partly filled set on a line that was not the newest.
C4_Witness ==
    /\ Len(hist) >= 2
    /\ cur.res = "hit"
    /\ NumValid(cache, cur.set) \in 2 .. E - 1
    /\ hist[Len(hist) - 1].set = cur.set
    /\ hist[Len(hist) - 1].tag # cur.tag
    /\ hist[Len(hist) - 1].res = "cold"

\* ----------------------------------------------------------------- C5
\* The eviction at trace index n removed a block that received a Store
\* between the miss that installed it and the eviction.
VictimStored(n) ==
    LET set  == hist[n].set
        v    == hist[n].victim
        inst == Max({0} \cup {m \in 1 .. n - 1 :
                                 /\ hist[m].set = set /\ hist[m].tag = v
                                 /\ hist[m].res # "hit"})
    IN  \E k \in inst .. n - 1 :
           /\ k >= 1
           /\ hist[k].set = set /\ hist[k].tag = v /\ hist[k].op = "S"

\* C5: dirty_evictions equals B times the number of evictions so far whose
\* victim received a Store while resident, and so is a multiple of B.
C5_DirtyEvictionsExact ==
    /\ stats.dirty_evictions
         = B * Cardinality({n \in 1 .. Len(hist) :
                               hist[n].res = "evict" /\ VictimStored(n)})
    /\ stats.dirty_evictions % B = 0

\* ----------------------------------------------------------------- C6
\* C6: the dirty_bytes of the summary equals B times the number of lines
\* that are valid and dirty at end of trace; dirty_bytes is 0 until the
\* sweep and no invalid line is dirty.
C6_DirtyBytesAtEnd ==
    /\ pc = "run" => stats.dirty_bytes = 0
    /\ pc = "done" =>
          stats.dirty_bytes
            = B * Cardinality({p \in DOMAIN cache :
                                  cache[p].valid = 1 /\ cache[p].dirty = 1})
    /\ \A p \in DOMAIN cache : cache[p].valid = 0 => cache[p].dirty = 0

\* The summary of a run that ends with a dirty line and a clean line in a
\* set that still has an invalid line, after a store hit in that set.
C6_Witness ==
    /\ pc = "done"
    /\ stats.dirty_bytes > 0
    /\ \E n \in 1 .. Len(hist) :
          /\ hist[n].res = "hit" /\ hist[n].op = "S"
          /\ NumValid(cache, hist[n].set) < E
    /\ \E p \in DOMAIN cache : cache[p].valid = 1 /\ cache[p].dirty = 0

\* ----------------------------------------------------------------- C7
\* C7: after n accesses hits + misses = n, each access adding exactly 1 to
\* exactly one of the two.
C7_HitsPlusMisses == stats.hits + stats.misses = Len(hist)

\* A run with hits, cold misses and an eviction.
C7_Witness ==
    /\ stats.hits >= 1
    /\ stats.evictions >= 1
    /\ stats.misses > stats.evictions

\* ----------------------------------------------------------------- C8
\* The blocks the trace has referenced, and the tags referenced in a set.
BlocksSeen == {<<hist[n].set, hist[n].tag>> : n \in 1 .. Len(hist)}
TagsSeen(set) == {hist[n].tag : n \in {m \in 1 .. Len(hist) : hist[m].set = set}}

\* C8 (as stated): while the trace has referenced at most S*E distinct
\* blocks, evictions is 0, for every geometry.
C8_NoEvictionWithinCapacity ==
    Cardinality(BlocksSeen) <= S * E => stats.evictions = 0

\* C8 (amended): while the trace has referenced at most E distinct tags in
\* each set, evictions is 0, for every geometry.
C8_NoEvictionWithinSetCapacity ==
    (\A set \in Sets : Cardinality(TagsSeen(set)) <= E) => stats.evictions = 0

\* Several sets, one of them filled to exactly E tags and accessed again.
C8_Witness ==
    /\ S > 1
    /\ \A set \in Sets : Cardinality(TagsSeen(set)) <= E
    /\ \E set \in Sets : Cardinality(TagsSeen(set)) = E
    /\ Len(hist) > Cardinality(BlocksSeen)
    /\ stats.evictions = 0

\* ----------------------------------------------------------------- C9
\* C9: a Load of an address whose block is not resident is a miss; a Load
\* of the block the previous Load referenced (the same address, or one that
\* differs in the offset bits) is a hit that leaves the addressed set as it
\* was; an access that hits the highest valid line of a
\* set moves no line.
C9_RepeatedLoads ==
    [][IsAccess =>
        /\ (new.op = "L" /\ ~Resident(cache, new.set, new.tag))
           => /\ stats'.misses = stats.misses + 1
              /\ stats'.hits = stats.hits
        /\ (new.op = "L" /\ Len(hist) > 0 /\ cur.op = "L"
                         /\ cur.set = new.set /\ cur.tag = new.tag)
           => /\ stats'.hits = stats.hits + 1
              /\ stats'.misses = stats.misses
              /\ \A i \in Pos :
                    LineAt(cache', new.set, i) = LineAt(cache, new.set, i)
        /\ ( /\ NumValid(cache, new.set) >= 1
             /\ LineAt(cache, new.set, NumValid(cache, new.set) - 1).valid = 1
             /\ LineAt(cache, new.set, NumValid(cache, new.set) - 1).tag
                  = new.tag )
           => /\ new.res = "hit"
              /\ \A i \in Pos :
                    /\ LineAt(cache', new.set, i).tag
                         = LineAt(cache, new.set, i).tag
                    /\ LineAt(cache', new.set, i).valid
                         = LineAt(cache, new.set, i).valid]_vars

\* Three Loads of one block in a row: a miss with eviction, then two hits.
C9_Witness ==
    /\ Len(hist) >= 3
    /\ \A n \in Len(hist) - 2 .. Len(hist) :
          hist[n].op = "L" /\ hist[n].set = cur.set /\ hist[n].tag = cur.tag
    /\ hist[Len(hist) - 2].res = "evict"
    /\ hist[Len(hist) - 1].res = "hit"
    /\ cur.res = "hit"

\* ---------------------------------------------------------------- C10
\* C10: a Load of the block the previous Store referenced is a hit that
\* changes no other counter, and afterwards the line with the tag is valid
\* and dirty, whether the Store hit, cold-missed or evicted.
C10_StoreThenLoad ==
    [][(IsAccess /\ Len(hist) > 0 /\ cur.op = "S" /\ new.op = "L"
                 /\ new.set = cur.set /\ new.tag = cur.tag)
       => /\ new.res = "hit"
          /\ stats' = [stats EXCEPT !.hits = @ + 1]
          /\ \E i \in Pos :
                /\ LineAt(cache', new.set, i).valid = 1
                /\ LineAt(cache', new.set, i).tag = new.tag
                /\ LineAt(cache', new.set, i).dirty = 1]_vars

\* A Store that missed with an eviction, followed at once by a Load of the
\* same block.
C10_Witness ==
    /\ Len(hist) >= 2
    /\ cur.op = "L" /\ cur.res = "hit"
    /\ hist[Len(hist) - 1].op = "S"
    /\ hist[Len(hist) - 1].set = cur.set
    /\ hist[Len(hist) - 1].tag = cur.tag
    /\ hist[Len(hist) - 1].res = "evict"

\* ---------------------------------------------------------------- C11
\* The records of the trace that address one set, in trace order.
SetHist(set) == SelectSeq(hist, LAMBDA r : r.set = set)

\* h runs through E+1 pairwise distinct tags, once or round and round in the
\* same order.
Cycles(h) ==
    /\ Len(h) >= 1
    /\ \A m, n \in 1 .. Len(h) :
          (m < n /\ n <= E + 1) => h[m].tag # h[n].tag
    /\ \A n \in 1 .. Len(h) : n > E + 1 => h[n].tag = h[n - (E + 1)].tag

\* C11: in a set accessed with E+1 distinct tags in a cycle, from empty, the
\* first E accesses miss without eviction and every later access misses with
\* an eviction; the first victim is the first tag accessed (in general the
\* victim is the tag accessed E accesses earlier), and no access hits.
C11_AssociativityBoundary ==
    \A set \in 0 .. S - 1 :
        LET h == SetHist(set)
        IN  Cycles(h) =>
              \A n \in 1 .. Len(h) :
                 /\ n <= E => h[n].res = "cold"
                 /\ n > E => /\ h[n].res = "evict"
                             /\ h[n].victim = h[n - E].tag

\* A two-way set cycled through three tags, one access past the first
\* eviction.
C11_Witness ==
    /\ E = 2
    /\ Len(hist) = 4
    /\ Cycles(SetHist(cur.set))
    /\ Len(SetHist(cur.set)) = 4
    /\ stats.evictions = 2

\* ---------------------------------------------------------------- C15
\* A reference LRU cache run over the operations, tags and sets of the first
\* n records of the trace: per set the resident tags, each with the index of
\* its latest access; a miss in a set that holds E tags evicts the tag with
\* the oldest latest access.
RECURSIVE RefRun(_)
RefRun(n) ==
    IF n = 0
    THEN [res |-> [set \in 0 .. S - 1 |-> {}],
          hits |-> 0, misses |-> 0, evictions |-> 0,
          out |-> "none", victim |-> -1]
    ELSE LET p   == RefRun(n - 1)
             r   == hist[n]
             R   == p.res[r.set]
             old == CHOOSE x \in R : \A y \in R : x[2] <= y[2]
         IN  IF \E x \in R : x[1] = r.tag
             THEN [p EXCEPT
                     !.res[r.set] = {x \in R : x[1] # r.tag}
                                      \cup {<<r.tag, n>>},
                     !.hits = @ + 1, !.out = "hit", !.victim = -1]
             ELSE IF Cardinality(R) < E
             THEN [p EXCEPT
                     !.res[r.set] = R \cup {<<r.tag, n>>},
                     !.misses = @ + 1, !.out = "cold", !.victim = -1]
             ELSE [p EXCEPT
                     !.res[r.set] = (R \ {old}) \cup {<<r.tag, n>>},
                     !.misses = @ + 1, !.evictions = @ + 1,
                     !.out = "evict", !.victim = old[1]]

\* C15: after every access the engine and the reference LRU cache agree on
\* the outcome of the access (hit, miss without eviction, miss with eviction
\* and its victim), on the resident tags of every set and on hits, misses
\* and evictions.
C15_RefinesReferenceLRU ==
    LET f == RefRun(Len(hist))
    IN  /\ Len(hist) > 0 =>
              /\ cur.res = f.out
              /\ cur.victim = f.victim
        /\ \A set \in 0 .. S - 1 :
              {LineAt(cache, set, i).tag :
                  i \in {j \in Pos : LineAt(cache, set, j).valid = 1}}
                = {x[1] : x \in f.res[set]}
        /\ \A set \in 0 .. S - 1 :
              NumValid(cache, set) = Cardinality(f.res[set])
        /\ stats.hits = f.hits
        /\ stats.misses = f.misses
        /\ stats.evictions = f.evictions

\* An eviction whose victim is not the tag installed first: an earlier hit
\* had made that tag the most recently used.
C15_Witness ==
    /\ Len(hist) >= 4
    /\ cur.res = "evict"
    /\ E >= 2
    /\ cur.victim # SetHist(cur.set)[1].tag
    /\ \E n \in 1 .. Len(hist) - 1 :
          hist[n].set = cur.set /\ hist[n].res = "hit"

\* ---------------------------------------------------------------- C16
\* Number of valid lines of the whole cache.
TotalValid(c) == Cardinality({p \in DOMAIN c : c[p].valid = 1})

\* C16: misses - evictions is the number of valid lines, so evictions <=
\* misses; an access counts an eviction exactly when it misses in a set whose
\* E lines are all valid, and a miss in a set with an invalid line makes one
\* more line valid and evicts nothing.
C16_MissesMinusEvictions ==
    /\ [](/\ stats.misses - stats.evictions = TotalValid(cache)
          /\ stats.evictions <= stats.misses)
    /\ [][IsAccess =>
            /\ (stats'.evictions = stats.evictions + 1)
                 <=> ( /\ stats'.misses = stats.misses + 1
                       /\ NumValid(cache, new.set) = E )
            /\ stats'.evictions \in {stats.evictions, stats.evictions + 1}
            /\ ( /\ stats'.misses = stats.misses + 1
                 /\ NumValid(cache, new.set) < E )
               => /\ TotalValid(cache') = TotalValid(cache) + 1
                  /\ stats'.evictions = stats.evictions]_vars

\* A direct-mapped cache with several sets: a second and a third miss in one
\* set, both with eviction, while another set is still empty.
C16_Witness ==
    /\ E = 1
    /\ S > 1
    /\ stats.evictions >= 2
    /\ TotalValid(cache) < S

\* ---------------------------------------------------------------- C17
\* The cache before the first record: every line invalid and clean.
EmptyCache ==
    [p \in 0 .. S * E - 1 |-> [valid |-> 0, tag |-> MAXADDR, dirty |-> 0]]

\* simulate applied to the first n records of h, starting from the empty
\* cache: the cache reached and the outcome of the n-th record.
RECURSIVE Replay(_, _)
Replay(h, n) ==
    IF n = 0
    THEN [cache |-> EmptyCache, res |-> "none", victim |-> -1]
    ELSE LET p == Replay(h, n - 1)
             r == Simulate(p.cache, stats, h[n].tag, h[n].set, h[n].op)
         IN  [cache |-> r.cache, res |-> r.res, victim |-> r.victim]

\* C17: an access changes no line outside positions set*E .. set*E+E-1, and
\* the lines of a set and the outcome of the latest access to it are those
\* obtained by applying only the records that address this set.
C17_SetsIndependent ==
    /\ [](\A set \in 0 .. S - 1 :
            LET h == SetHist(set)
                f == Replay(h, Len(h))
            IN  /\ \A i \in Pos :
                      LineAt(cache, set, i) = LineAt(f.cache, set, i)
                /\ Len(h) > 0 => /\ h[Len(h)].res = f.res
                                 /\ h[Len(h)].victim = f.victim)
    /\ [][IsAccess =>
            \A p \in DOMAIN cache :
               (p < new.set * E \/ p > new.set * E + E - 1)
               => cache'[p] = cache[p]]_vars

\* Two sets accessed in alternation, with an eviction in a set whose
\* neighbour holds valid lines.
C17_Witness ==
    /\ S > 1
    /\ E >= 2
    /\ Len(hist) >= 4
    /\ cur.res = "hit"
    /\ hist[Len(hist) - 1].set # cur.set
    /\ hist[Len(hist) - 2].set = cur.set
    /\ \A set \in 0 .. S - 1 : NumValid(cache, set) >= 1

\* ---------------------------------------------------------------- C19
\* C19: in every set the valid lines are a prefix (no valid line follows an
\* invalid one) in order of last access; so the scan, which stops at the
\* first invalid line, finds every resident tag at a valid line; and a line
\* once valid stays valid.
C19_ScanLayout ==
    /\ [](\A set \in 0 .. S - 1 :
            /\ \A i, j \in Pos :
                  (i < j /\ LineAt(cache, set, j).valid = 1)
                  => LineAt(cache, set, i).valid = 1
            /\ RecencyOrdered(set)
            /\ \A j \in Pos :
                  LineAt(cache, set, j).valid = 1
                  => LET tag == LineAt(cache, set, j).tag
                         i   == FirstStop(cache, set * E, tag)
                     IN  /\ i >= 0
                         /\ LineAt(cache, set, i).valid = 1
                         /\ LineAt(cache, set, i).tag = tag)
    /\ [][\A p \in DOMAIN cache :
             cache[p].valid = 1 => cache'[p].valid = 1]_vars

\* A partly filled set after a hit, a cold miss and another hit.
C19_Witness ==
    /\ E >= 3
    /\ Len(hist) >= 4
    /\ NumValid(cache, cur.set) = 2
    /\ cur.res = "hit"
    /\ Cardinality({n \in 1 .. Len(hist) :
                       hist[n].set = cur.set /\ hist[n].res = "hit"}) >= 2

\* ---------------------------------------------------------------- C20
\* C20: within a set no two valid lines hold the same tag.
C20_NoDuplicateTags ==
    \A set \in 0 .. S - 1 :
        \A i, j \in Pos :
            ( /\ i # j
              /\ LineAt(cache, set, i).valid = 1
              /\ LineAt(cache, set, j).valid = 1 )
            => LineAt(cache, set, i).tag # LineAt(cache, set, j).tag

\* A full set of at least two lines after a hit on its newest line and an
\* eviction.
C20_Witness ==
    /\ E >= 2
    /\ Len(hist) > 0
    /\ NumValid(cache, cur.set) = E
    /\ stats.evictions >= 1
    /\ \E n \in 1 .. Len(hist) :
          /\ hist[n].set = cur.set /\ hist[n].res = "hit"
          /\ n > 1 /\ hist[n - 1].set = cur.set /\ hist[n - 1].tag = hist[n].tag

\* ---------------------------------------------------------------- C12
\* A line the parser is to accept: newline-terminated, operation L or S,
\* both fields present and without trailing characters, 1 <= size <= MAXSIZE.
ValidLine(ln) ==
    /\ ln.nl
    /\ ln.op \in {"L", "S"}
    /\ ln.hasAddr /\ ln.hasSize
    /\ ~ln.addrTrail /\ ~ln.sizeTrail
    /\ ln.size >= 1 /\ ln.size <= MAXSIZE

\* C12: a record reaches the engine only if it is valid; the first line
\* that is not valid (size 0 and size above MAXSIZE included) ends the run
\* with an error and without a summary, whatever came before it.
C12_OnlyValidRecordsApplied ==
    /\ \A n \in 1 .. Len(hist) :
          /\ hist[n].op \in {"L", "S"}
          /\ hist[n].size >= 1 /\ hist[n].size <= MAXSIZE
    /\ (line # NoLine /\ ~ValidLine(line)) => pc = "error"
    /\ pc = "error" => stats.dirty_bytes = 0

\* ---------------------------------------------------------------- C13
\* C13: an invocation that lacks one of -s, -b, -E, -t ends in the usage
\* error, before the cache is allocated or the trace opened.
C13_MissingOptionRejected ==
    ( /\ pc # "start"
      /\ argv.special = "none"
      /\ (~argv.s.given \/ ~argv.b.given \/ ~argv.E.given \/ ~argv.t) )
    => /\ pc = "usage"
       /\ cache = <<>>
       /\ fh = "none"
       /\ hist = <<>>

\* ---------------------------------------------------------------- C14
\* C14: once process_trace_file has returned after opening the file, at end
\* of file or at an invalid line, the handle is closed.
C14_HandleReleased ==
    (pc \in {"done", "error"} /\ fh # "none") => fh = "closed"

\* ---------------------------------------------------------------- C18
\* C18: for every address and every geometry with s + b <= MAXBITS the parser
\* computes tag = addr >> (s + b) and set = (addr >> b) mod 2^s; so set <
\* 2^s, the address is tag*2^(s+b) + set*2^b + offset, and another address
\* gets the same tag and set exactly when it differs in the low b bits only.
C18_Decomposition ==
    dec.tag # -1 =>
       /\ dec.tag = dec.addr \div Pow2(s + b)
       /\ dec.set = (dec.addr \div Pow2(b)) % Pow2(s)
       /\ dec.set < Pow2(s)
       /\ dec.addr = dec.tag * Pow2(s + b) + dec.set * Pow2(b)
                       + (dec.addr % Pow2(b))
       /\ \A a \in 0 .. MAXADDR :
             (a \div Pow2(s + b) = dec.tag /\ SetOf(a) = dec.set)
             <=> (a \div Pow2(b) = dec.addr \div Pow2(b))
====
